---- MODULE Spec2Model ----
(***************************************************************************)
(* A model of monarch_tools: the Chase statement extractor                 *)
(* (extractors/chase.py), the categorization engine                        *)
(* (categorize_engine.py), the categorize-by-rules command                 *)
(* (commands/categorize.py) and the rule-learning session (categorize.py). *)
(*                                                                         *)
(* Text is modelled by TLA+ strings; Ch(s, i) is the one-character string  *)
(* at position i.  Each component has its own specification (SpecMoney,    *)
(* SpecTable, SpecExtract, SpecEngine, SpecCat, SpecSession); the          *)
(* variables of the other components stay at their idle values.            *)
(***************************************************************************)
EXTENDS Integers, Sequences, FiniteSets, TLC

VARIABLES
    \* ----- _parse_money / _looks_like_money (SpecMoney)
    money_pc,          \* "lead" | "int" | "frac" | "tail" | "ready" | "parsed" | "formatted" | "reparsed"
    money_s,           \* the token handed to _parse_money
    money_val,         \* _parse_money(money_s)
    money_fmt,         \* f"{money_val:.2f}"
    money_val2         \* _parse_money(money_fmt)

moneyVars == <<money_pc, money_s, money_val, money_fmt, money_val2>>

VARIABLES
    \* ----- _extract_transactions_from_table (SpecTable)
    table_pc,          \* "build" | "done"
    table,             \* the table handed to the extractor: rows of raw cells
    rows_out           \* the records it returned

tableVars == <<table_pc, table, rows_out>>

VARIABLES
    \* ----- extract_activity (SpecExtract)
    ex_pc,             \* "start" | "open" | "tables" | "lines" | "write" | "done" | "raised"
    pdf_path,          \* the pdf_path argument
    out_dir_ok,        \* whether out_dir can be created and written
    pdfplumber_ok,     \* whether `import pdfplumber` succeeds
    num_pages,         \* len(doc.pages)
    page_num,          \* the page the running pass is at
    page_tables,       \* per page, what page.extract_tables() did in the first pass
    page_text,         \* per page, what page.extract_text() did in the second pass
    all_transactions,  \* the records accumulated so far
    line_calls,        \* per page, the calls of _extract_transactions_from_lines
    out_csv,           \* the content of <out_dir>/<pdf-stem>.activity.csv
    ex_outcome,        \* "" | "import_error" | "read_error" | "ok": the return taken
    ex_returned        \* the path returned ("" before the return)

extractVars ==
    <<ex_pc, pdf_path, out_dir_ok, pdfplumber_ok, num_pages, page_num, page_tables,
      page_text, all_transactions, line_calls, out_csv, ex_outcome, ex_returned>>

VARIABLES
    \* ----- load_rules / categorize_merchant (SpecEngine)
    engine_pc,         \* "edit" | "loaded" | "done"
    engine_data,       \* the parsed rules.json: merchants (items in order) and patterns
    engine_rules,      \* load_rules(path): Rules(merchants, patterns)
    engine_merchant,   \* the merchant handed to categorize_merchant
    engine_result      \* what categorize_merchant returned

engineVars == <<engine_pc, engine_data, engine_rules, engine_merchant, engine_result>>

VARIABLES
    \* ----- the categorize-by-rules command (SpecCat)
    cat_pc,            \* "start" | "header" | "rows" | "unmatched" | "done" | "exit" | "crash"
    cat_run,           \* 1: the first run; 2: the run on the first run's output
    fs,                \* the CSV files, by path
    cat_rules_json,    \* the parsed content of the --rules file
    cat_categories_txt, \* the lines of the --categories file
    cat_in_csv,        \* in_csv, the --in path
    cat_out_csv,       \* out_csv
    unmatched_csv,     \* unmatched_csv
    cat_input,         \* what the input file held when the run began
    cat_reader,        \* what the DictReader reads from the opened input
    cat_categories,    \* categories = load_categories(cats_path)
    cat_rules,         \* rules = load_rules(rules_path)
    fieldnames,        \* the header read from the input
    cat_row,           \* the index of the next row to read
    unmatched_counts   \* the tally of unmatched merchants

catVars ==
    <<cat_pc, cat_run, fs, cat_rules_json, cat_categories_txt, cat_in_csv, cat_out_csv,
      unmatched_csv, cat_input, cat_reader, cat_categories, cat_rules, fieldnames,
      cat_row, unmatched_counts>>

VARIABLES
    \* ----- the rule-learning session (SpecSession)
    sess_pc,           \* "load" | "rows" | "ask_canonical" | "ask_category" | "ask_group"
                       \* | "save" | "done" | "exit" | "interrupted"
    categories_txt,    \* the categories file: its lines, or absent
    groups_txt,        \* the groups file: its lines, or absent
    rules_json,        \* the rules file: its parsed content, or absent
    activity_csv,      \* the activity file: its header and its rows
    categories,        \* categories, in order
    groups,            \* groups, in order
    category_to_group, \* category -> group
    group_to_categories, \* group -> categories, in order
    raw_to_canonical,  \* rules["raw_to_canonical"]
    exact,             \* rules["exact"]: canonical -> category
    patterns,          \* rules["patterns"]
    seen_canonical,    \* canonical -> category, for this run
    sess_row,          \* the index of the next activity row
    raw_desc,          \* the row's trimmed Description
    canonical,         \* the row's canonical name: the suggestion, then the choice
    category           \* the category entered, while the group is asked for

sessVars ==
    <<sess_pc, categories_txt, groups_txt, rules_json, activity_csv, categories, groups,
      category_to_group, group_to_categories, raw_to_canonical, exact, patterns,
      seen_canonical, sess_row, raw_desc, canonical, category>>

vars == <<moneyVars, tableVars, extractVars, engineVars, catVars, sessVars>>

\* What each component leaves alone: the variables of the others.
moneyOthers == <<tableVars, extractVars, engineVars, catVars, sessVars>>

tableOthers == <<moneyVars, extractVars, engineVars, catVars, sessVars>>

extractOthers == <<moneyVars, tableVars, engineVars, catVars, sessVars>>

engineOthers == <<moneyVars, tableVars, extractVars, catVars, sessVars>>

catOthers == <<moneyVars, tableVars, extractVars, engineVars, sessVars>>

sessOthers == <<moneyVars, tableVars, extractVars, engineVars, catVars>>

(***************************************************************************)
(* Characters and strings                                                  *)
(***************************************************************************)
Ch(s, i) == SubSeq(s, i, i)

Digits == {"0", "1", "2", "3", "4", "5", "6", "7", "8", "9"}

IsDigit(c) == c \in Digits

IsSpace(c) == c = " "

StartsWith(s, p) == Len(s) >= Len(p) /\ SubSeq(s, 1, Len(p)) = p

EndsWith(s, p) == Len(s) >= Len(p) /\ SubSeq(s, Len(s) - Len(p) + 1, Len(s)) = p

RECURSIVE LStrip(_)
LStrip(s) == IF s # "" /\ IsSpace(Ch(s, 1)) THEN LStrip(SubSeq(s, 2, Len(s))) ELSE s

RECURSIVE RStrip(_)
RStrip(s) == IF s # "" /\ IsSpace(Ch(s, Len(s))) THEN RStrip(SubSeq(s, 1, Len(s) - 1)) ELSE s

\* str.strip()
Strip(s) == RStrip(LStrip(s))

\* s.replace(c, "")
RECURSIVE RemoveChar(_, _)
RemoveChar(s, c) ==
    IF s = "" THEN ""
    ELSE (IF Ch(s, 1) = c THEN "" ELSE Ch(s, 1)) \o RemoveChar(SubSeq(s, 2, Len(s)), c)

\* The number of consecutive digits of s from position i on.
RECURSIVE DigitRun(_, _)
DigitRun(s, i) == IF i <= Len(s) /\ IsDigit(Ch(s, i)) THEN 1 + DigitRun(s, i + 1) ELSE 0

DigitValue(c) ==
    CASE c = "0" -> 0 [] c = "1" -> 1 [] c = "2" -> 2 [] c = "3" -> 3 [] c = "4" -> 4
      [] c = "5" -> 5 [] c = "6" -> 6 [] c = "7" -> 7 [] c = "8" -> 8 [] c = "9" -> 9

DigitChar(d) == Ch("0123456789", d + 1)

\* int(s) of a string of digits
RECURSIVE DigitsToNat(_)
DigitsToNat(s) ==
    IF s = "" THEN 0
    ELSE 10 * DigitsToNat(SubSeq(s, 1, Len(s) - 1)) + DigitValue(Ch(s, Len(s)))

\* str(n) of a natural number
RECURSIVE NatToDigits(_)
NatToDigits(n) == IF n < 10 THEN DigitChar(n) ELSE NatToDigits(n \div 10) \o DigitChar(n % 10)

(***************************************************************************)
(* Money and date tokens (chase.py).  A parsed amount is a float; the      *)
(* model keeps its sign (float has a negative zero) and its magnitude in   *)
(* cents, exact for the amounts of the model.                              *)
(***************************************************************************)
None == [isNone |-> TRUE, neg |-> FALSE, cents |-> 0]

Float(neg, cents) == [isNone |-> FALSE, neg |-> neg, cents |-> cents]

\* Python's == on two results of _parse_money (-0.0 == 0.0, None == None).
NumEq(a, b) ==
    IF a.isNone \/ b.isNone THEN a.isNone /\ b.isNone
    ELSE a.cents = b.cents /\ (a.cents = 0 \/ a.neg = b.neg)

\* re.match(r"^-?\d+(?:\.\d{2})?$", s)
MatchPlainNumber(s) ==
    LET i == IF StartsWith(s, "-") THEN 2 ELSE 1
        d == DigitRun(s, i)
        j == i + d
    IN  /\ d >= 1
        /\ \/ j = Len(s) + 1
           \/ /\ Ch(s, j) = "."
              /\ DigitRun(s, j + 1) = 2
              /\ j + 2 = Len(s)

\* float(s) for s matching MatchPlainNumber
ToFloat(s) ==
    LET neg == StartsWith(s, "-")
        i == IF neg THEN 2 ELSE 1
        d == DigitRun(s, i)
        whole == DigitsToNat(SubSeq(s, i, i + d - 1))
        frac == IF i + d > Len(s) THEN 0 ELSE DigitsToNat(SubSeq(s, i + d + 1, Len(s)))
    IN  Float(neg, 100 * whole + frac)

parse_money(s0) ==
    LET s1 == Strip(s0)
        negative == StartsWith(s1, "(") /\ EndsWith(s1, ")")
        s2 == IF negative THEN Strip(SubSeq(s1, 2, Len(s1) - 1)) ELSE s1
        s3 == IF StartsWith(s2, "$") THEN Strip(SubSeq(s2, 2, Len(s2))) ELSE s2
        s4 == RemoveChar(s3, ",")
    IN  IF s1 = "" THEN None
        ELSE IF ~MatchPlainNumber(s4) THEN None
        ELSE LET value == ToFloat(s4)
             IN  IF negative THEN Float(~value.neg, value.cents) ELSE value

\* f"{value:.2f}"
FormatMoney(v) ==
    (IF v.neg THEN "-" ELSE "") \o NatToDigits(v.cents \div 100) \o "."
        \o DigitChar((v.cents % 100) \div 10) \o DigitChar(v.cents % 10)

\* MONEY_RE.match(s): ^-?\$?\d{1,3}(?:,\d{3})*(?:\.\d{2})?$
RECURSIVE SkipCommaGroups(_, _)
SkipCommaGroups(s, i) ==
    IF i <= Len(s) /\ Ch(s, i) = "," /\ DigitRun(s, i + 1) >= 3
    THEN SkipCommaGroups(s, i + 4)
    ELSE i

MatchMoneyRe(s) ==
    LET i == IF StartsWith(s, "-") THEN 2 ELSE 1
        j == IF i <= Len(s) /\ Ch(s, i) = "$" THEN i + 1 ELSE i
        d == DigitRun(s, j)
        k == SkipCommaGroups(s, j + d)
    IN  /\ d >= 1
        /\ d <= 3
        /\ \/ k = Len(s) + 1
           \/ /\ Ch(s, k) = "."
              /\ DigitRun(s, k + 1) = 2
              /\ k + 2 = Len(s)

looks_like_money(s) == MatchMoneyRe(Strip(s))

\* DATE_RE.match(s): ^\d{1,2}/\d{1,2}/\d{2,4}$
MatchDateRe(s) ==
    LET d1 == DigitRun(s, 1)
        d2 == DigitRun(s, d1 + 2)
        d3 == DigitRun(s, d1 + d2 + 3)
    IN  /\ d1 \in 1..2
        /\ Ch(s, d1 + 1) = "/"
        /\ d2 \in 1..2
        /\ Ch(s, d1 + d2 + 2) = "/"
        /\ d3 \in 2..4
        /\ d1 + d2 + d3 + 2 = Len(s)

looks_like_date(s) == MatchDateRe(Strip(s))

(***************************************************************************)
(* The table row extractor (chase.py).                                     *)
(***************************************************************************)
UpperLetters == "ABCDEFGHIJKLMNOPQRSTUVWXYZ"

LowerLetters == "abcdefghijklmnopqrstuvwxyz"

\* c.lower() of one character
LowerChar(c) ==
    IF \E i \in 1..26 : Ch(UpperLetters, i) = c
    THEN Ch(LowerLetters, CHOOSE i \in 1..26 : Ch(UpperLetters, i) = c)
    ELSE c

\* s.lower()
RECURSIVE Lower(_)
Lower(s) == IF s = "" THEN "" ELSE LowerChar(Ch(s, 1)) \o Lower(SubSeq(s, 2, Len(s)))

\* sub in s
Contains(s, sub) ==
    \E i \in 1..(Len(s) - Len(sub) + 1) : SubSeq(s, i, i + Len(sub) - 1) = sub

\* sep.join(parts)
RECURSIVE Join(_, _)
Join(parts, sep) ==
    IF parts = <<>> THEN ""
    ELSE IF Len(parts) = 1 THEN parts[1]
    ELSE parts[1] \o sep \o Join(Tail(parts), sep)

\* [x for x in seq if keep(x)]
RECURSIVE NonEmptyCells(_)
NonEmptyCells(cells) ==
    IF cells = <<>> THEN <<>>
    ELSE (IF cells[1] # "" THEN <<cells[1]>> ELSE <<>>) \o NonEmptyCells(Tail(cells))

\* A cell pdfplumber left empty (Python's None).
NoneCell == "<None>"

clean_cell(cell) == IF cell = NoneCell THEN "" ELSE Strip(cell)

\* lines 150-152: the first index >= idx whose cell is not empty
RECURSIVE SkipEmpty(_, _)
SkipEmpty(row, idx) ==
    IF idx <= Len(row) /\ row[idx] = "" THEN SkipEmpty(row, idx + 1) ELSE idx

\* lines 154-158: the non-empty cells from desc_idx up to the first money-like cell
RECURSIVE DescriptionParts(_, _)
DescriptionParts(row, desc_idx) ==
    IF desc_idx <= Len(row) /\ ~looks_like_money(row[desc_idx])
    THEN (IF row[desc_idx] # "" THEN <<row[desc_idx]>> ELSE <<>>)
             \o DescriptionParts(row, desc_idx + 1)
    ELSE <<>>

\* lines 167-169, as the ascending sequence of the money-like cells' indices
RECURSIVE MoneyIndicesFrom(_, _)
MoneyIndicesFrom(row, i) ==
    IF i > Len(row) THEN <<>>
    ELSE (IF looks_like_money(row[i]) THEN <<i>> ELSE <<>>) \o MoneyIndicesFrom(row, i + 1)

\* lines 178-179: the cell taken as the amount
AmountIndex(money_indices) == money_indices[Len(money_indices)]

\* lines 181-184: the cell taken as the balance
BalanceIndex(money_indices) == money_indices[Len(money_indices) - 1]

\* One iteration of the loop over the table's rows: the records (none or one)
\* the row adds to rows_out.
ExtractRow(raw_row) ==
    LET row == [i \in 1..Len(raw_row) |-> clean_cell(raw_row[i])]
        joined_lower == Lower(Join(row, " "))
        first == row[1]
        hasPost == Len(row) >= 2 /\ looks_like_date(row[2])
        post_date == IF hasPost THEN row[2] ELSE ""
        idx == SkipEmpty(row, IF hasPost THEN 3 ELSE 2)
        parts == Strip(Join(DescriptionParts(row, idx), " "))
        middle == NonEmptyCells(SubSeq(row, 2, Len(row) - 1))
        description == IF parts # "" THEN parts ELSE Strip(Join(middle, " "))
        money_indices == MoneyIndicesFrom(row, 1)
        amount_str == IF money_indices # <<>> THEN row[AmountIndex(money_indices)] ELSE ""
        balance_str ==
            IF Len(money_indices) >= 2 THEN row[BalanceIndex(money_indices)] ELSE ""
        amount_val == parse_money(amount_str)
        balance_val == parse_money(balance_str)
    IN  IF raw_row = <<>> THEN <<>>
        ELSE IF Contains(joined_lower, "date") /\ Contains(joined_lower, "description")
        THEN <<>>
        ELSE IF ~looks_like_date(first) THEN <<>>
        ELSE IF amount_val.isNone THEN <<>>
        ELSE << [ transaction_date |-> first,
                  post_date |-> post_date,
                  description |-> description,
                  amount |-> FormatMoney(amount_val),
                  balance |-> IF balance_val.isNone THEN "" ELSE FormatMoney(balance_val),
                  raw |-> Join(row, " | ") ] >>

RECURSIVE extract_transactions_from_table(_)
extract_transactions_from_table(t) ==
    IF t = <<>> THEN <<>>
    ELSE ExtractRow(t[1]) \o extract_transactions_from_table(Tail(t))

(***************************************************************************)
(* The categorization engine (categorize_engine.py).  An Optional[str] is  *)
(* a record: NoneStr, or Some(text).  A rule's regex is literal text, so   *)
(* that a search is a substring test.                                      *)
(***************************************************************************)
NoneStr == [isNone |-> TRUE, text |-> ""]

Some(text) == [isNone |-> FALSE, text |-> text]

\* " ".join(s.split()) of a stripped s: runs of blanks become one blank
RECURSIVE CollapseSpaces(_)
CollapseSpaces(s) ==
    IF Len(s) < 2 THEN s
    ELSE IF IsSpace(Ch(s, 1)) /\ IsSpace(Ch(s, 2)) THEN CollapseSpaces(SubSeq(s, 2, Len(s)))
    ELSE Ch(s, 1) \o CollapseSpaces(SubSeq(s, 2, Len(s)))

normalize_merchant(s) == CollapseSpaces(Strip(s))

\* {normalize_merchant(k): str(v) for k, v in items}: a later item replaces
\* an earlier one with the same normalized key
RECURSIVE MerchantsDict(_)
MerchantsDict(items) ==
    IF items = <<>> THEN <<>>
    ELSE LET rest == MerchantsDict(SubSeq(items, 1, Len(items) - 1))
             last == items[Len(items)]
             key == normalize_merchant(last.key)
         IN  [k \in DOMAIN rest \cup {key} |-> IF k = key THEN last.value ELSE rest[k]]

\* The regexes of the model are literal text, but for one with an unclosed
\* group: re.compile and re.search raise re.error on it.
ReError(rx) == Len(RemoveChar(rx, "(")) # Len(RemoveChar(rx, ")"))

\* re.search(rx, m, flags=re.IGNORECASE)
RegexSearch_IgnoreCase(rx, m) == Contains(Lower(m), Lower(rx))

\* re.compile(rx).search(m), case-sensitive
RegexSearch(rx, m) == Contains(m, rx)

\* PatternRule.from_dict
PatternRule(d) == [regex |-> d.regex, category |-> d.category]

\* load_rules raises what re.compile raises in PatternRule.from_dict
load_rules_raises(data) == \E i \in 1..Len(data.patterns) : ReError(data.patterns[i].regex)

\* load_rules, when nothing is raised
load_rules(data) ==
    [ merchants |-> MerchantsDict(data.merchants),
      patterns |-> [i \in 1..Len(data.patterns) |-> PatternRule(data.patterns[i])] ]

\* rules.merchants.get(m)
MerchantsGet(rules, m) ==
    IF m \in DOMAIN rules.merchants THEN Some(rules.merchants[m]) ELSE NoneStr

\* `if cat:` on an Optional[str]
Truthy(opt) == ~opt.isNone /\ opt.text # ""

\* lines 61-65: the category of the first pattern whose search succeeds
RECURSIVE FirstPatternMatch(_, _, _)
FirstPatternMatch(pats, m, i) ==
    IF i > Len(pats) THEN NoneStr
    ELSE IF RegexSearch(pats[i].regex, m) THEN Some(pats[i].category)
    ELSE FirstPatternMatch(pats, m, i + 1)

categorize_merchant(merchant, rules) ==
    LET m == normalize_merchant(merchant)
        cat == MerchantsGet(rules, m)
    IN  IF Truthy(cat) THEN cat ELSE FirstPatternMatch(rules.patterns, m, 1)

(***************************************************************************)
(* The categorize-by-rules command (commands/categorize.py).  A CSV file   *)
(* is its header and its rows of cells; a row may hold fewer or more cells *)
(* than the header.                                                        *)
(***************************************************************************)
NoFile == [exists |-> FALSE, header |-> <<>>, rows |-> <<>>]

\* A file just opened for writing.
EmptyFile == [exists |-> TRUE, header |-> <<>>, rows |-> <<>>]

\* s.replace(old, new)
RECURSIVE ReplaceAll(_, _, _)
ReplaceAll(s, old, new) ==
    IF s = "" THEN ""
    ELSE IF StartsWith(s, old) THEN new \o ReplaceAll(SubSeq(s, Len(old) + 1, Len(s)), old, new)
    ELSE Ch(s, 1) \o ReplaceAll(SubSeq(s, 2, Len(s)), old, new)

\* _default_out_path(in_csv, suffix), for a path without directories
default_out_path(in_csv, suffix) == ReplaceAll(in_csv, ".monarch.csv", suffix)

\* load_categories, from the file's lines
load_categories(lines) ==
    {Strip(lines[i]) : i \in {j \in 1..Len(lines) :
                                Strip(lines[j]) # "" /\ ~StartsWith(Strip(lines[j]), "#")}}

\* The characters of the model's text in code point order.
CodePointOrder == " #$(),-./0123456789<>ABCDEFGHIJKLMNOPQRSTUVWXYZ_abcdefghijklmnopqrstuvwxyz|"

CodePoint(c) == CHOOSE i \in 1..Len(CodePointOrder) : Ch(CodePointOrder, i) = c

\* a < b on str
RECURSIVE StrLess(_, _)
StrLess(a, b) ==
    IF b = "" THEN FALSE
    ELSE IF a = "" THEN TRUE
    ELSE IF Ch(a, 1) = Ch(b, 1) THEN StrLess(SubSeq(a, 2, Len(a)), SubSeq(b, 2, Len(b)))
    ELSE CodePoint(Ch(a, 1)) < CodePoint(Ch(b, 1))

\* sorted(unmatched_counts.items(), key=lambda x: (-x[1], x[0])), as report rows
RECURSIVE SortedReport(_)
SortedReport(counts) ==
    IF DOMAIN counts = {} THEN <<>>
    ELSE LET k == CHOOSE k \in DOMAIN counts :
                      \A j \in DOMAIN counts \ {k} :
                          \/ counts[k] > counts[j]
                          \/ counts[k] = counts[j] /\ StrLess(k, j)
         IN  << <<k, NatToDigits(counts[k])>> >>
                 \o SortedReport([j \in DOMAIN counts \ {k} |-> counts[j]])

\* The position of a column in the header (0: not a column).
ColumnIndex(header, col) ==
    IF \E j \in 1..Len(header) : header[j] = col
    THEN CHOOSE j \in 1..Len(header) : header[j] = col /\ \A i \in 1..(j - 1) : header[i] # col
    ELSE 0

\* row.get(col, "") or "": a missing column or a missing cell reads as ""
RowGet(header, cells, col) ==
    LET j == ColumnIndex(header, col)
    IN  IF j = 0 \/ j > Len(cells) THEN "" ELSE cells[j]

\* What DictWriter.writerow writes for the row, Category replaced by cat when
\* replace holds: one cell per column, a missing cell as "".
WrittenRow(header, cells, replace, cat) ==
    [j \in 1..Len(header) |->
        IF replace /\ header[j] = "Category" THEN cat
        ELSE IF j <= Len(cells) THEN cells[j]
        ELSE ""]

\* lines 67-69: categorize_merchant(merchant, rules) or "Uncategorized", forced
\* to "Uncategorized" when it is not a known category
RowCategory(merchant, rules, cats) ==
    LET found == categorize_merchant(merchant, rules)
        cat == IF Truthy(found) THEN found.text ELSE "Uncategorized"
    IN  IF cat \in cats THEN cat ELSE "Uncategorized"

TallyOnce(counts, key) ==
    [k \in DOMAIN counts \cup {key} |-> IF k = key THEN 1 ELSE counts[k]]

\* line 77: unmatched_counts[key] = unmatched_counts.get(key, 0) + 1
Tally(counts, key) ==
    [k \in DOMAIN counts \cup {key} |->
        IF k = key THEN (IF key \in DOMAIN counts THEN counts[key] ELSE 0) + 1
        ELSE counts[k]]

(***************************************************************************)
(* The rule-learning session (categorize.py).  A text file is its lines; a *)
(* dict is a function on its keys.                                         *)
(***************************************************************************)
AbsentText == [exists |-> FALSE, lines |-> <<>>]

TextFile(lines) == [exists |-> TRUE, lines |-> lines]

\* d.get(k), as an Optional[str]
DictGet(d, k) == IF k \in DOMAIN d THEN Some(d[k]) ELSE NoneStr

\* d[k] = v
DictSet(d, k, v) == [x \in DOMAIN d \cup {k} |-> IF x = k THEN v ELSE d[x]]

\* x in seq
InSeq(seq, x) == \E i \in 1..Len(seq) : seq[i] = x

\* `if x not in seq: seq.append(x)`
AppendNew(seq, x) == IF InSeq(seq, x) THEN seq ELSE Append(seq, x)

\* _load_categories
RECURSIVE LoadCategoryLines(_)
LoadCategoryLines(lines) ==
    IF lines = <<>> THEN <<>>
    ELSE LET line == Strip(lines[1])
         IN  (IF line = "" \/ StartsWith(line, "#") THEN <<>> ELSE <<line>>)
                 \o LoadCategoryLines(Tail(lines))

sess_load_categories(file) == IF file.exists THEN LoadCategoryLines(file.lines) ELSE <<>>

\* _save_categories: "\n".join(categories) + "\n"
save_categories(cats) == TextFile(IF cats = <<>> THEN <<"">> ELSE cats)

\* line.lstrip("*")
RECURSIVE LStripStars(_)
LStripStars(s) == IF StartsWith(s, "*") THEN LStripStars(SubSeq(s, 2, Len(s))) ELSE s

NoGroups == [groups |-> <<>>, category_to_group |-> <<>>, group_to_categories |-> <<>>,
             current_group |-> NoneStr]

\* d.setdefault(k, [])
SetDefaultEmpty(d, k) == IF k \in DOMAIN d THEN d ELSE DictSet(d, k, <<>>)

\* lines 75-93: the loop of _load_groups over the file's lines
RECURSIVE LoadGroupLines(_, _)
LoadGroupLines(lines, acc) ==
    IF lines = <<>> THEN acc
    ELSE LET line == Strip(lines[1])
             rest == Tail(lines)
         IN  IF line = "" \/ StartsWith(line, "#") THEN LoadGroupLines(rest, acc)
             ELSE IF StartsWith(line, "*")
             THEN LET g == Strip(LStripStars(line))
                  IN  LoadGroupLines(rest,
                          [acc EXCEPT !.current_group = Some(g),
                                      !.groups = AppendNew(@, g),
                                      !.group_to_categories = SetDefaultEmpty(@, g)])
             ELSE LET g == IF acc.current_group.isNone THEN "Ungrouped"
                           ELSE acc.current_group.text
                      g2c == SetDefaultEmpty(acc.group_to_categories, g)
                  IN  LoadGroupLines(rest,
                          [acc EXCEPT
                              !.current_group = Some(g),
                              !.groups = IF acc.current_group.isNone
                                         THEN AppendNew(@, g) ELSE @,
                              !.category_to_group = DictSet(@, line, g),
                              !.group_to_categories = DictSet(g2c, g, Append(g2c[g], line))])

load_groups(file) == IF file.exists THEN LoadGroupLines(file.lines, NoGroups) ELSE NoGroups

\* lines 99-104: "*group", its categories, and a blank line, for every group
RECURSIVE GroupLines(_, _)
GroupLines(grps, g2c) ==
    IF grps = <<>> THEN <<>>
    ELSE <<"*" \o grps[1]>> \o (IF grps[1] \in DOMAIN g2c THEN g2c[grps[1]] ELSE <<>>)
             \o <<"">> \o GroupLines(Tail(grps), g2c)

\* text.rstrip(), on the lines of the text
RECURSIVE RStripLines(_)
RStripLines(lines) ==
    IF lines = <<>> THEN <<>>
    ELSE IF Strip(lines[Len(lines)]) = "" THEN RStripLines(SubSeq(lines, 1, Len(lines) - 1))
    ELSE SubSeq(lines, 1, Len(lines) - 1) \o <<RStrip(lines[Len(lines)])>>

\* _save_groups
save_groups(grps, g2c) ==
    LET lines == RStripLines(GroupLines(grps, g2c))
    IN  TextFile(IF lines = <<>> THEN <<"">> ELSE lines)

NoRules == [exact |-> <<>>, patterns |-> <<>>, raw_to_canonical |-> <<>>]

AbsentRules == [exists |-> FALSE, data |-> NoRules]

\* _load_rules: the file's content, or {} when it is absent, with the three
\* keys defaulted
sess_load_rules(file) == IF file.exists THEN file.data ELSE NoRules

\* _save_rules
save_rules(ex, pats, r2c) ==
    [exists |-> TRUE, data |-> [exact |-> ex, patterns |-> pats, raw_to_canonical |-> r2c]]

\* The rules file of the session as the engine's load_rules reads it
\* (categorize_engine.py): the file has the keys exact, patterns,
\* raw_to_canonical and rules_version, so data.get("merchants", {}) is empty.
SessionFileMerchants(file) == <<>>

\* PatternRule.from_dict on an item {"pattern": ..., "canonical": ...} of the
\* session's file: d["regex"] raises KeyError, so load_rules raises as soon
\* as the file holds a pattern
load_session_file_raises(file) == file.data.patterns # <<>>

\* load_rules on the session's file, when nothing is raised
load_session_file(file) ==
    load_rules([merchants |-> SessionFileMerchants(file), patterns |-> <<>>])

\* lines 234-245: the canonical name of the first pattern found in raw_desc,
\* letter case ignored; a rule without a pattern, or with one that raises
\* re.error, is passed over
RECURSIVE PatternCanonical(_, _, _)
PatternCanonical(pats, raw, i) ==
    IF i > Len(pats) THEN NoneStr
    ELSE IF pats[i].pattern # "" /\ ~ReError(pats[i].pattern)
            /\ RegexSearch_IgnoreCase(pats[i].pattern, raw)
    THEN Some(IF pats[i].canonical # "" THEN pats[i].canonical ELSE raw)
    ELSE PatternCanonical(pats, raw, i + 1)

\* lines 231-245: raw_to_canonical.get(raw_desc), else the patterns
SuggestedCanonical(r2c, pats, raw) ==
    IF Truthy(DictGet(r2c, raw)) THEN DictGet(r2c, raw)
    ELSE PatternCanonical(pats, raw, 1)

\* _pick_canonical, given what the operator entered (already trimmed)
pick_canonical(raw, existing_canonical, entered) ==
    IF Truthy(existing_canonical)
    THEN (IF entered = "" THEN existing_canonical.text ELSE entered)
    ELSE (IF entered = "" THEN raw ELSE entered)

(***************************************************************************)
(* SpecMoney: a token is put together from a lead, an integer part, a      *)
(* fraction and a tail, then parsed, formatted and parsed again.           *)
(***************************************************************************)
MoneyLead == {"", "-", "$", "-$", "$-", "(", "($", "(-", " "}

MoneyInt == {"", "0", "5", "45", "123", "1234", "1,200", "1,23", "12,345,678"}

MoneyFrac == {"", ".00", ".5", ".45", ".456"}

MoneyTail == {"", ")", " ", "x"}

MoneyIdle ==
    /\ money_pc = "idle"
    /\ money_s = ""
    /\ money_val = None
    /\ money_fmt = ""
    /\ money_val2 = None

ExtractIdle ==
    /\ ex_pc = "idle"
    /\ pdf_path = ""
    /\ out_dir_ok = TRUE
    /\ pdfplumber_ok = TRUE
    /\ num_pages = 0
    /\ page_num = 0
    /\ page_tables = <<>>
    /\ page_text = <<>>
    /\ all_transactions = <<>>
    /\ line_calls = <<>>
    /\ out_csv = [exists |-> FALSE, header |-> <<>>, records |-> <<>>]
    /\ ex_outcome = ""
    /\ ex_returned = ""

EmptyRulesData == [merchants |-> <<>>, patterns |-> <<>>]

EngineIdle ==
    /\ engine_pc = "idle"
    /\ engine_data = EmptyRulesData
    /\ engine_rules = load_rules(EmptyRulesData)
    /\ engine_merchant = ""
    /\ engine_result = NoneStr

CatIdle ==
    /\ cat_pc = "idle"
    /\ cat_run = 0
    /\ fs = <<>>
    /\ cat_rules_json = EmptyRulesData
    /\ cat_categories_txt = <<>>
    /\ cat_in_csv = ""
    /\ cat_out_csv = ""
    /\ unmatched_csv = ""
    /\ cat_input = NoFile
    /\ cat_reader = NoFile
    /\ cat_categories = {}
    /\ cat_rules = load_rules(EmptyRulesData)
    /\ fieldnames = <<>>
    /\ cat_row = 0
    /\ unmatched_counts = <<>>

SessionIdle ==
    /\ sess_pc = "idle"
    /\ categories_txt = AbsentText
    /\ groups_txt = AbsentText
    /\ rules_json = AbsentRules
    /\ activity_csv = NoFile
    /\ categories = <<>>
    /\ groups = <<>>
    /\ category_to_group = <<>>
    /\ group_to_categories = <<>>
    /\ raw_to_canonical = <<>>
    /\ exact = <<>>
    /\ patterns = <<>>
    /\ seen_canonical = <<>>
    /\ sess_row = 0
    /\ raw_desc = ""
    /\ canonical = NoneStr
    /\ category = ""

TableIdle ==
    /\ table_pc = "idle"
    /\ table = <<>>
    /\ rows_out = <<>>

MoneyInit ==
    /\ money_pc = "lead"
    /\ money_s = ""
    /\ money_val = None
    /\ money_fmt = ""
    /\ money_val2 = None

MoneyAppend(from, to, pool) ==
    /\ money_pc = from
    /\ \E p \in pool : money_s' = money_s \o p
    /\ money_pc' = to
    /\ UNCHANGED <<money_val, money_fmt, money_val2, moneyOthers>>

MoneyAddLead == MoneyAppend("lead", "int", MoneyLead)

MoneyAddInt == MoneyAppend("int", "frac", MoneyInt)

MoneyAddFrac == MoneyAppend("frac", "tail", MoneyFrac)

MoneyAddTail == MoneyAppend("tail", "ready", MoneyTail)

MoneyParse ==
    /\ money_pc = "ready"
    /\ money_val' = parse_money(money_s)
    /\ money_pc' = "parsed"
    /\ UNCHANGED <<money_s, money_fmt, money_val2, moneyOthers>>

MoneyFormat ==
    /\ money_pc = "parsed"
    /\ ~money_val.isNone
    /\ money_fmt' = FormatMoney(money_val)
    /\ money_pc' = "formatted"
    /\ UNCHANGED <<money_s, money_val, money_val2, moneyOthers>>

MoneyReparse ==
    /\ money_pc = "formatted"
    /\ money_val2' = parse_money(money_fmt)
    /\ money_pc' = "reparsed"
    /\ UNCHANGED <<money_s, money_val, money_fmt, moneyOthers>>

MoneyNext ==
    \/ MoneyAddLead
    \/ MoneyAddInt
    \/ MoneyAddFrac
    \/ MoneyAddTail
    \/ MoneyParse
    \/ MoneyFormat
    \/ MoneyReparse

InitMoney == MoneyInit /\ TableIdle /\ ExtractIdle /\ EngineIdle /\ CatIdle /\ SessionIdle

SpecMoney == InitMoney /\ [][MoneyNext]_vars

\* A token of one of the forms _parse_money's contract lists and
\* _looks_like_money accepts: a MONEY_RE token, or one in parentheses.
AcceptedMoney(s) ==
    \/ looks_like_money(s)
    \/ /\ StartsWith(Strip(s), "(")
       /\ EndsWith(Strip(s), ")")
       /\ Len(Strip(s)) >= 2
       /\ looks_like_money(SubSeq(Strip(s), 2, Len(Strip(s)) - 1))

\* A string of the form -?d+.dd
TwoDecimals(s) == MatchPlainNumber(s) /\ Len(s) >= 4 /\ Ch(s, Len(s) - 2) = "."

\* C4: for every token of the accepted money grammar, parse_money returns a
\* number rather than none, the number formats to a two-decimal string, and
\* parsing the formatted string gives the same number again.
C4_AcceptedMoneyParses ==
    (money_pc \in {"parsed", "formatted", "reparsed"} /\ AcceptedMoney(money_s)) =>
        /\ ~money_val.isNone
        /\ money_pc \in {"formatted", "reparsed"} => TwoDecimals(money_fmt)
        /\ money_pc = "reparsed" => NumEq(money_val2, money_val)

(***************************************************************************)
(* SpecTable: a table of one optional leading row and one row put together *)
(* cell by cell is handed to the table row extractor.                      *)
(***************************************************************************)
MaxCells == 4

LeadingRows ==
    { <<>>,
      << <<>> >>,
      << <<"Date", "Description", "Amount">> >>,
      << <<"03/01/24", "COFFEE SHOP", "4.50">> >> }

CellPool ==
    { "03/01/24", "DESCRIPTION TEXT", "45.00", "1,200.00", "", NoneCell,
      " $7 ", "(5.00)", "Update description" }

\* The row under construction is the last row of the table.
BuiltRow == table[Len(table)]

TableInit ==
    /\ table_pc = "build"
    /\ \E lead \in LeadingRows : table = lead \o << <<>> >>
    /\ rows_out = <<>>

TableAddCell ==
    /\ table_pc = "build"
    /\ Len(BuiltRow) < MaxCells
    /\ \E c \in CellPool :
           table' = [table EXCEPT ![Len(table)] = Append(@, c)]
    /\ UNCHANGED <<table_pc, rows_out, tableOthers>>

TableExtract ==
    /\ table_pc = "build"
    /\ rows_out' = extract_transactions_from_table(table)
    /\ table_pc' = "done"
    /\ UNCHANGED <<table, tableOthers>>

TableNext ==
    \/ TableAddCell
    \/ TableExtract

InitTable == TableInit /\ MoneyIdle /\ ExtractIdle /\ EngineIdle /\ CatIdle /\ SessionIdle

SpecTable == InitTable /\ [][TableNext]_vars

(***************************************************************************)
(* SpecExtract: extract_activity (chase.py, lines 263-353).  The decoder   *)
(* is a collaborator: what a page's extract_tables() and extract_text()    *)
(* give is drawn when the page is visited.  A table is kept as the number  *)
(* of records _extract_transactions_from_table finds in it, a page's text  *)
(* as the number _extract_transactions_from_lines finds in its lines.      *)
(***************************************************************************)
MaxPages == 2

MaxTables == 2

MaxYield == 1

PdfPaths == {"stmt.pdf", "in/jan.2024.pdf", "scan"}

HeaderRow == <<"transaction_date", "post_date", "description", "amount", "balance", "raw">>

RECURSIVE LastIndexOf(_, _)
LastIndexOf(s, c) ==
    IF s = "" THEN 0
    ELSE IF Ch(s, Len(s)) = c THEN Len(s)
    ELSE LastIndexOf(SubSeq(s, 1, Len(s) - 1), c)

\* Path(p).name
PathName(path) == SubSeq(path, LastIndexOf(path, "/") + 1, Len(path))

\* Path(p).stem
PathStem(path) ==
    LET name == PathName(path)
        i == LastIndexOf(name, ".")
    IN  IF i > 1 /\ i < Len(name) THEN SubSeq(name, 1, i - 1) ELSE name

\* out_dir_path / f"{pdf.stem}.activity.csv", relative to out_dir
OutCsvPath(path) == PathStem(path) \o ".activity.csv"

Unvisited == [state |-> "unvisited", yields |-> <<>>]

TableOutcomes ==
    {[state |-> "raise", yields |-> <<>>]}
        \cup {[state |-> "ok", yields |-> y] :
                 y \in UNION {[1..n -> 0..MaxYield] : n \in 0..MaxTables}}

TextOutcomes ==
    {[state |-> "raise", yields |-> <<>>], [state |-> "empty", yields |-> <<>>]}
        \cup {[state |-> "text", yields |-> <<n>>] : n \in 0..MaxYield}

\* The records one table (or one page's lines) gives, in order.
RowRecords(src, p, t, n) ==
    [k \in 1..n |-> [src |-> src, page |-> p, table |-> t, row |-> k]]

\* lines 308-313: the records of a page's tables, table by table
RECURSIVE TablesRecords(_, _, _)
TablesRecords(p, yields, t) ==
    IF t > Len(yields) THEN <<>>
    ELSE RowRecords("table", p, t, yields[t]) \o TablesRecords(p, yields, t + 1)

HeaderOnly == [exists |-> TRUE, header |-> HeaderRow, records |-> <<>>]

\* The run starts at activity_command, or at extract_activity called directly.
ExtractInit ==
    /\ ex_pc \in {"command", "start"}
    /\ pdf_path \in PdfPaths
    /\ out_dir_ok \in BOOLEAN
    /\ pdfplumber_ok \in BOOLEAN
    /\ num_pages \in 0..MaxPages
    /\ page_num = 0
    /\ page_tables = [p \in 1..num_pages |-> Unvisited]
    /\ page_text = [p \in 1..num_pages |-> Unvisited]
    /\ all_transactions = <<>>
    /\ line_calls = [p \in 1..num_pages |-> 0]
    /\ out_csv \in
          { [exists |-> FALSE, header |-> <<>>, records |-> <<>>],
            [exists |-> TRUE, header |-> HeaderRow,
             records |-> RowRecords("stale", 1, 1, 1)] }
    /\ ex_outcome = ""
    /\ ex_returned = ""

ActivityCommand_WritesPlaceholder ==
    /\ ex_pc = "command"
    /\ \E pdf_exists \in BOOLEAN :
          IF ~pdf_exists
          THEN /\ ex_pc' = "exit"
               /\ out_csv' = IF out_csv.exists THEN out_csv ELSE HeaderOnly
          ELSE /\ ex_pc' = "start"
               /\ UNCHANGED out_csv
    /\ UNCHANGED <<pdf_path, out_dir_ok, pdfplumber_ok, num_pages, page_num, page_tables,
                   page_text, all_transactions, line_calls, ex_outcome, ex_returned,
                   extractOthers>>

\* activity.py, lines 65-104: activity_command up to the call of the
\* extractor: the PDF is looked for, out/ is made, the extractor is looked up
\* (without one, a placeholder CSV is written unless the file exists)
ActivityCommand ==
    /\ ex_pc = "command"
    /\ \E pdf_exists \in BOOLEAN, extractor_found \in BOOLEAN :
          IF ~pdf_exists
          THEN /\ ex_pc' = "exit"
               /\ UNCHANGED out_csv
          ELSE IF ~out_dir_ok
          THEN /\ ex_pc' = "raised"
               /\ UNCHANGED out_csv
          ELSE IF ~extractor_found
          THEN /\ ex_pc' = "no_extractor"
               /\ out_csv' = IF out_csv.exists THEN out_csv ELSE HeaderOnly
          ELSE /\ ex_pc' = "start"
               /\ UNCHANGED out_csv
    /\ UNCHANGED <<pdf_path, out_dir_ok, pdfplumber_ok, num_pages, page_num, page_tables,
                   page_text, all_transactions, line_calls, ex_outcome, ex_returned,
                   extractOthers>>

\* lines 272-291: mkdir, the output path, and the import of the decoder
ExStart ==
    /\ ex_pc = "start"
    /\ IF ~out_dir_ok
       THEN /\ ex_pc' = "raised"
            /\ UNCHANGED <<out_csv, ex_outcome, ex_returned>>
       ELSE IF ~pdfplumber_ok
       THEN /\ out_csv' = HeaderOnly
            /\ ex_outcome' = "import_error"
            /\ ex_returned' = OutCsvPath(pdf_path)
            /\ ex_pc' = "done"
       ELSE /\ ex_pc' = "open"
            /\ UNCHANGED <<out_csv, ex_outcome, ex_returned>>
    /\ UNCHANGED <<pdf_path, out_dir_ok, pdfplumber_ok, num_pages, page_num, page_tables,
                   page_text, all_transactions, line_calls, extractOthers>>

\* lines 333-341: the handler of any exception of the try block
ReadErrorHandler ==
    /\ out_csv' = HeaderOnly
    /\ ex_outcome' = "read_error"
    /\ ex_returned' = OutCsvPath(pdf_path)
    /\ ex_pc' = "done"

\* line 296: pdfplumber.open(str(pdf))
ExOpen ==
    /\ ex_pc = "open"
    /\ \E opened \in BOOLEAN :
          IF opened
          THEN /\ ex_pc' = "tables"
               /\ page_num' = 1
               /\ UNCHANGED <<out_csv, ex_outcome, ex_returned>>
          ELSE /\ ReadErrorHandler
               /\ UNCHANGED page_num
    /\ UNCHANGED <<pdf_path, out_dir_ok, pdfplumber_ok, num_pages, page_tables,
                   page_text, all_transactions, line_calls, extractOthers>>

ExTablePage_RaiseAborts ==
    /\ ex_pc = "tables"
    /\ page_num <= num_pages
    /\ \E o \in TableOutcomes :
          /\ page_tables' = [page_tables EXCEPT ![page_num] = o]
          /\ IF o.state = "raise"
             THEN /\ ReadErrorHandler
                  /\ UNCHANGED <<all_transactions, page_num>>
             ELSE /\ all_transactions' =
                        all_transactions \o TablesRecords(page_num, o.yields, 1)
                  /\ page_num' = page_num + 1
                  /\ UNCHANGED <<ex_pc, out_csv, ex_outcome, ex_returned>>
    /\ UNCHANGED <<pdf_path, out_dir_ok, pdfplumber_ok, num_pages, page_text,
                   line_calls, extractOthers>>

\* lines 298-313: one page of the first pass
ExTablePage ==
    /\ ex_pc = "tables"
    /\ page_num <= num_pages
    /\ \E o \in TableOutcomes :
          /\ page_tables' = [page_tables EXCEPT ![page_num] = o]
          /\ all_transactions' =
                IF o.state = "raise" THEN all_transactions
                ELSE all_transactions \o TablesRecords(page_num, o.yields, 1)
    /\ page_num' = page_num + 1
    /\ UNCHANGED <<ex_pc, pdf_path, out_dir_ok, pdfplumber_ok, num_pages, page_text,
                   line_calls, out_csv, ex_outcome, ex_returned, extractOthers>>

ExTablesDone_AlwaysLines ==
    /\ ex_pc = "tables"
    /\ page_num > num_pages
    /\ ex_pc' = "lines"
    /\ page_num' = 1
    /\ UNCHANGED <<pdf_path, out_dir_ok, pdfplumber_ok, num_pages, page_tables, page_text,
                   all_transactions, line_calls, out_csv, ex_outcome, ex_returned,
                   extractOthers>>

\* lines 315-318: after the last page of the first pass, `if not all_transactions`
ExTablesDone ==
    /\ ex_pc = "tables"
    /\ page_num > num_pages
    /\ IF all_transactions = <<>>
       THEN /\ ex_pc' = "lines"
            /\ page_num' = 1
       ELSE /\ ex_pc' = "write"
            /\ UNCHANGED page_num
    /\ UNCHANGED <<pdf_path, out_dir_ok, pdfplumber_ok, num_pages, page_tables, page_text,
                   all_transactions, line_calls, out_csv, ex_outcome, ex_returned,
                   extractOthers>>

\* lines 318-331: one page of the second pass
ExLinePage ==
    /\ ex_pc = "lines"
    /\ page_num <= num_pages
    /\ \E o \in TextOutcomes :
          /\ page_text' = [page_text EXCEPT ![page_num] = o]
          /\ IF o.state = "text"
             THEN /\ line_calls' = [line_calls EXCEPT ![page_num] = @ + 1]
                  /\ all_transactions' =
                        all_transactions \o RowRecords("line", page_num, 1, o.yields[1])
             ELSE UNCHANGED <<line_calls, all_transactions>>
    /\ page_num' = page_num + 1
    /\ UNCHANGED <<ex_pc, pdf_path, out_dir_ok, pdfplumber_ok, num_pages, page_tables,
                   out_csv, ex_outcome, ex_returned, extractOthers>>

\* the end of the second pass and of the `with` block
ExLinesDone ==
    /\ ex_pc = "lines"
    /\ page_num > num_pages
    /\ ex_pc' = "write"
    /\ UNCHANGED <<pdf_path, out_dir_ok, pdfplumber_ok, num_pages, page_num, page_tables,
                   page_text, all_transactions, line_calls, out_csv, ex_outcome,
                   ex_returned, extractOthers>>

ExReadFail_KeepsRecords ==
    /\ ex_pc \in {"tables", "lines"}
    /\ out_csv' = [exists |-> TRUE, header |-> HeaderRow, records |-> all_transactions]
    /\ ex_outcome' = "read_error"
    /\ ex_returned' = OutCsvPath(pdf_path)
    /\ ex_pc' = "done"
    /\ UNCHANGED <<pdf_path, out_dir_ok, pdfplumber_ok, num_pages, page_num, page_tables,
                   page_text, all_transactions, line_calls, extractOthers>>

\* lines 295-341: an exception escapes the page loops (reading doc.pages, a
\* table the row extractor cannot walk, closing the document)
ExReadFail ==
    /\ ex_pc \in {"tables", "lines"}
    /\ ReadErrorHandler
    /\ UNCHANGED <<pdf_path, out_dir_ok, pdfplumber_ok, num_pages, page_num, page_tables,
                   page_text, all_transactions, line_calls, extractOthers>>

\* lines 343-353: the header, then every accumulated record
ExWrite ==
    /\ ex_pc = "write"
    /\ out_csv' = [exists |-> TRUE, header |-> HeaderRow, records |-> all_transactions]
    /\ ex_outcome' = "ok"
    /\ ex_returned' = OutCsvPath(pdf_path)
    /\ ex_pc' = "done"
    /\ UNCHANGED <<pdf_path, out_dir_ok, pdfplumber_ok, num_pages, page_num, page_tables,
                   page_text, all_transactions, line_calls, extractOthers>>

ExtractNext ==
    \/ ActivityCommand
    \/ ExStart
    \/ ExOpen
    \/ ExTablePage
    \/ ExTablesDone
    \/ ExLinePage
    \/ ExLinesDone
    \/ ExReadFail
    \/ ExWrite

InitExtract == ExtractInit /\ MoneyIdle /\ TableIdle /\ EngineIdle /\ CatIdle /\ SessionIdle

SpecExtract == InitExtract /\ [][ExtractNext]_vars

\* The first pass found a record in some table.
TablesYielded == \E i \in 1..Len(all_transactions) : all_transactions[i].src = "table"

\* The first pass ended without a record.
TablePassEmpty ==
    \A p \in 1..num_pages :
        /\ page_tables[p].state # "unvisited"
        /\ TablesRecords(p, page_tables[p].yields, 1) = <<>>

\* Every page gave its tables and its text without an exception.
PagesReadable ==
    \A p \in 1..num_pages : page_tables[p].state = "ok" /\ page_text[p].state # "raise"

\* C1 (as claimed): when the table pass yields nothing, the line-based
\* extractor is invoked exactly once for each page of a readable document;
\* when it yields a record, the line-based extractor is never invoked.
C1_LineExtractorOncePerPage ==
    (ex_pc = "done" /\ ex_outcome = "ok") =>
        /\ (TablePassEmpty /\ PagesReadable) => \A p \in 1..num_pages : line_calls[p] = 1
        /\ TablesYielded => \A p \in 1..num_pages : line_calls[p] = 0

\* C1 (amended): when the table pass yields nothing, the second pass visits
\* every page once and invokes the line-based extractor exactly once for each
\* page whose text was extracted and is not empty, and not at all for a page
\* whose text is empty or whose text extraction failed; when the table pass
\* yields a record, the line-based extractor is never invoked and no record
\* is line-derived.
C1_LineExtractorOncePerTextPage ==
    /\ TablesYielded =>
          /\ \A p \in 1..num_pages : line_calls[p] = 0
          /\ \A i \in 1..Len(all_transactions) : all_transactions[i].src = "table"
    /\ (ex_pc = "done" /\ ex_outcome = "ok" /\ TablePassEmpty) =>
          \A p \in 1..num_pages :
              /\ page_text[p].state # "unvisited"
              /\ line_calls[p] = IF page_text[p].state = "text" THEN 1 ELSE 0

\* C1 witness: a finished run whose table pass found nothing and whose second
\* pass met both a page with text and a page without.
C1_Witness ==
    /\ ex_pc = "done"
    /\ ex_outcome = "ok"
    /\ TablePassEmpty
    /\ \E p, q \in 1..num_pages :
          /\ page_text[p].state = "text" /\ line_calls[p] = 1
          /\ page_text[q].state = "empty" /\ line_calls[q] = 0

\* C2: extract_activity raises only when the output directory is
\* inaccessible; after a missing decoder, a failed open or a failed read it
\* returns <pdf-stem>.activity.csv holding the header and no record, whatever
\* was accumulated; after any other run the file holds the header followed by
\* the accumulated records.
C2_HeaderOnlyOnFailure ==
    /\ ex_pc = "raised" => ~out_dir_ok
    /\ ex_pc = "done" =>
          /\ ex_returned = OutCsvPath(pdf_path)
          /\ out_csv.exists
          /\ out_csv.header = HeaderRow
          /\ ex_outcome \in {"import_error", "read_error"} => out_csv.records = <<>>
          /\ ex_outcome = "ok" => out_csv.records = all_transactions
          /\ ex_outcome = "import_error" <=> ~pdfplumber_ok

\* C2 witness: a read failure after records had been accumulated, over an
\* output file that held records before.
C2_Witness ==
    /\ ex_pc = "done"
    /\ ex_outcome = "read_error"
    /\ all_transactions # <<>>
    /\ out_csv = HeaderOnly

(***************************************************************************)
(* SpecEngine: a rules.json is put together item by item, loaded, and a    *)
(* merchant is categorized against it.                                     *)
(***************************************************************************)
MaxMerchantItems == 2

MaxPatterns == 2

EngineKeys == {"STARBUCKS", " BLUE  BOTTLE "}

EngineCategories == {"", "Coffee", "Shopping"}

EngineRegexes == {"STAR", "bottle", "AMAZON", "STAR("}

EngineMerchants == {"STARBUCKS", "  Starbucks", "BLUE BOTTLE", "Blue   Bottle ", "amazon prime", ""}

EngineInit ==
    /\ engine_pc = "edit"
    /\ engine_data = EmptyRulesData
    /\ engine_rules = load_rules(EmptyRulesData)
    /\ engine_merchant = ""
    /\ engine_result = NoneStr

\* one more "merchants" item of the rules.json
EngineAddMerchant ==
    /\ engine_pc = "edit"
    /\ Len(engine_data.merchants) < MaxMerchantItems
    /\ \E k \in EngineKeys, v \in EngineCategories :
          engine_data' =
              [engine_data EXCEPT !.merchants = Append(@, [key |-> k, value |-> v])]
    /\ UNCHANGED <<engine_pc, engine_rules, engine_merchant, engine_result, engineOthers>>

\* one more "patterns" item of the rules.json
EngineAddPattern ==
    /\ engine_pc = "edit"
    /\ Len(engine_data.patterns) < MaxPatterns
    /\ \E rx \in EngineRegexes, c \in EngineCategories \ {""} :
          engine_data' =
              [engine_data EXCEPT !.patterns = Append(@, [regex |-> rx, category |-> c])]
    /\ UNCHANGED <<engine_pc, engine_rules, engine_merchant, engine_result, engineOthers>>

EngineLoad ==
    /\ engine_pc = "edit"
    /\ IF load_rules_raises(engine_data)
       THEN engine_pc' = "crash" /\ UNCHANGED engine_rules
       ELSE engine_pc' = "loaded" /\ engine_rules' = load_rules(engine_data)
    /\ UNCHANGED <<engine_data, engine_merchant, engine_result, engineOthers>>

EngineCategorize ==
    /\ engine_pc = "loaded"
    /\ \E m \in EngineMerchants :
          /\ engine_merchant' = m
          /\ engine_result' = categorize_merchant(m, engine_rules)
    /\ engine_pc' = "done"
    /\ UNCHANGED <<engine_data, engine_rules, engineOthers>>

EngineNext ==
    \/ EngineAddMerchant
    \/ EngineAddPattern
    \/ EngineLoad
    \/ EngineCategorize

InitEngine == EngineInit /\ MoneyIdle /\ TableIdle /\ ExtractIdle /\ CatIdle /\ SessionIdle

SpecEngine == InitEngine /\ [][EngineNext]_vars

\* C5: a merchant whose normalized form is a key of the merchant-to-category
\* map gets the category stored under that key, whatever the stored value
\* and whatever the patterns.
C5_ExactKeyWins ==
    (engine_pc = "done"
        /\ normalize_merchant(engine_merchant) \in DOMAIN engine_rules.merchants) =>
        engine_result = Some(engine_rules.merchants[normalize_merchant(engine_merchant)])

\* The category of the first pattern, in declared order, that is found in m
\* when letter case is ignored.
RECURSIVE FirstMatchIgnoringCase(_, _, _)
FirstMatchIgnoringCase(pats, m, i) ==
    IF i > Len(pats) THEN NoneStr
    ELSE IF RegexSearch_IgnoreCase(pats[i].regex, m) THEN Some(pats[i].category)
    ELSE FirstMatchIgnoringCase(pats, m, i + 1)

\* C6: a merchant with no exact entry gets the category of the first pattern,
\* in declared order, whose search succeeds against the normalized merchant
\* ignoring letter case.
C6_FirstPatternIgnoringCase ==
    (engine_pc = "done"
        /\ normalize_merchant(engine_merchant) \notin DOMAIN engine_rules.merchants) =>
        engine_result =
            FirstMatchIgnoringCase(engine_rules.patterns,
                                   normalize_merchant(engine_merchant), 1)

(***************************************************************************)
(* SpecCat: cmd_categorize of commands/categorize.py, run on an input CSV  *)
(* and then, after a clean end, run again on the CSV it wrote.             *)
(***************************************************************************)
MaxRows == 2

CatPaths ==
    { "x.monarch.csv", "x.csv", "x.monarch.categorized.csv", "x.unmatched_merchants.csv",
      "out.csv", "out2.csv", "unm.csv" }

CatInPaths == {"x.monarch.csv", "x.csv"}

\* The --out and --unmatched arguments a run may be given ("": the default).
OutArgs(run) == IF run = 1 THEN {"", "out.csv"} ELSE {"", "out2.csv"}

UnmatchedArgs == {"", "unm.csv"}

CatRulesJson ==
    [ merchants |-> << [key |-> "STARBUCKS", value |-> "Coffee"],
                       [key |-> "ACME INC", value |-> "Gadgets"] >>,
      patterns |-> << [regex |-> "SHELL", category |-> "Gas"] >> ]

CategoriesTxts ==
    { <<"Coffee", "# fuel", " Gas ", "", "Uncategorized">>,
      <<"Coffee">> }

\* The rows of the input, by Merchant and Category; a short row ends after its
\* first cell, a long row holds one cell more than the header.
CatRowPool ==
    { [m |-> "STARBUCKS", c |-> "", shape |-> "full"],
      [m |-> " ACME  INC ", c |-> "", shape |-> "full"],
      [m |-> "SHELL OIL", c |-> "", shape |-> "full"],
      [m |-> "BAR", c |-> "", shape |-> "full"],
      [m |-> " BAR", c |-> " ", shape |-> "full"],
      [m |-> "FOO", c |-> "Legacy", shape |-> "full"],
      [m |-> "", c |-> "", shape |-> "full"],
      [m |-> "BAR", c |-> "Legacy", shape |-> "short"],
      [m |-> "FOO", c |-> "Legacy", shape |-> "long"] }

CatHeaders ==
    { <<>>, <<"Merchant", "Amount">>, <<"Merchant", "Category">>, <<"Category", "Merchant">> }

\* The cells of a row under a header.
EncodeRow(header, r) ==
    LET full == [j \in 1..Len(header) |->
                    IF header[j] = "Merchant" THEN r.m
                    ELSE IF header[j] = "Category" THEN r.c
                    ELSE "1.00"]
    IN  IF r.shape = "short" THEN SubSeq(full, 1, 1)
        ELSE IF r.shape = "long" THEN Append(full, "extra")
        ELSE full

\* The input files of the model: any rows under a header with a Category
\* column, at most one row under another header (its rows are never read).
CatInputs ==
    { [exists |-> TRUE, header |-> h, rows |-> [i \in 1..n |-> EncodeRow(h, rs[i])]] :
        h \in {hh \in CatHeaders : ColumnIndex(hh, "Category") > 0},
        n \in 0..MaxRows,
        rs \in [1..MaxRows -> CatRowPool] }
    \cup
    { [exists |-> TRUE, header |-> h, rows |-> rs] :
        h \in {hh \in CatHeaders : ColumnIndex(hh, "Category") = 0},
        rs \in {<<>>, << <<"BAR", "Legacy">> >>} }

\* What a path other than the input holds before the first run.
StaleFile == [exists |-> TRUE, header |-> <<"Merchant", "Category">>,
              rows |-> << <<"OLD", "Legacy">> >>]

CatInit ==
    /\ cat_pc = "start"
    /\ cat_run = 1
    /\ cat_in_csv \in CatInPaths
    /\ cat_input \in CatInputs
    /\ fs = [p \in CatPaths |-> IF p = cat_in_csv THEN cat_input ELSE StaleFile]
    /\ cat_rules_json = CatRulesJson
    /\ cat_categories_txt \in CategoriesTxts
    /\ cat_out_csv = ""
    /\ unmatched_csv = ""
    /\ cat_reader = NoFile
    /\ cat_categories = {}
    /\ cat_rules = load_rules(EmptyRulesData)
    /\ fieldnames = <<>>
    /\ cat_row = 0
    /\ unmatched_counts = <<>>

\* lines 28-47: the existence checks, the output paths, the two loads, and the
\* opening of the input for reading and of the output for writing
CatStart ==
    /\ cat_pc = "start"
    /\ \E missing \in (IF cat_run = 1 THEN {"", "in", "rules", "categories"} ELSE {""}),
          out_arg \in OutArgs(cat_run), unmatched_arg \in UnmatchedArgs :
          IF missing # ""
          THEN /\ cat_pc' = "exit"
               /\ UNCHANGED <<fs, cat_out_csv, unmatched_csv, cat_reader, cat_categories,
                              cat_rules>>
          ELSE LET out == IF out_arg # "" THEN out_arg
                          ELSE default_out_path(cat_in_csv, ".monarch.categorized.csv")
                   unm == IF unmatched_arg # "" THEN unmatched_arg
                          ELSE default_out_path(cat_in_csv, ".unmatched_merchants.csv")
               IN  /\ cat_out_csv' = out
                   /\ unmatched_csv' = unm
                   /\ cat_categories' = load_categories(cat_categories_txt)
                   /\ cat_rules' = load_rules(cat_rules_json)
                   /\ fs' = [fs EXCEPT ![out] = EmptyFile]
                   /\ cat_reader' = fs'[cat_in_csv]
                   /\ cat_pc' = "header"
    /\ unmatched_counts' = <<>>
    /\ UNCHANGED <<cat_run, cat_rules_json, cat_categories_txt, cat_in_csv, cat_input,
                   fieldnames, cat_row, catOthers>>

\* lines 48-57: the header checks and writeheader()
CatHeader ==
    /\ cat_pc = "header"
    /\ IF cat_reader.header = <<>> \/ ColumnIndex(cat_reader.header, "Category") = 0
       THEN /\ cat_pc' = "exit"
            /\ UNCHANGED <<fs, fieldnames, cat_row>>
       ELSE /\ fieldnames' = cat_reader.header
            /\ fs' = [fs EXCEPT ![cat_out_csv].header = cat_reader.header]
            /\ cat_row' = 1
            /\ cat_pc' = "rows"
    /\ UNCHANGED <<cat_run, cat_rules_json, cat_categories_txt, cat_in_csv, cat_out_csv,
                   unmatched_csv, cat_input, cat_reader, cat_categories, cat_rules,
                   unmatched_counts, catOthers>>

\* lines 59-77: one row of the input
CatRow ==
    /\ cat_pc = "rows"
    /\ cat_row <= Len(cat_reader.rows)
    /\ LET cells == cat_reader.rows[cat_row]
           merchant == RowGet(fieldnames, cells, "Merchant")
           existing == Strip(RowGet(fieldnames, cells, "Category"))
           cat == RowCategory(merchant, cat_rules, cat_categories)
           key == normalize_merchant(merchant)
       IN  IF Len(cells) > Len(fieldnames)
           THEN \* DictWriter.writerow raises ValueError: a key not in fieldnames
                /\ cat_pc' = "crash"
                /\ UNCHANGED <<fs, cat_row, unmatched_counts>>
           ELSE /\ fs' = [fs EXCEPT ![cat_out_csv].rows =
                            Append(@, WrittenRow(fieldnames, cells, existing = "", cat))]
                /\ unmatched_counts' =
                      IF existing = "" /\ cat = "Uncategorized" /\ key # ""
                      THEN Tally(unmatched_counts, key)
                      ELSE unmatched_counts
                /\ cat_row' = cat_row + 1
                /\ UNCHANGED cat_pc
    /\ UNCHANGED <<cat_run, cat_rules_json, cat_categories_txt, cat_in_csv, cat_out_csv,
                   unmatched_csv, cat_input, cat_reader, cat_categories, cat_rules,
                   fieldnames, catOthers>>

\* the end of the loop: both files are closed
CatRowsDone ==
    /\ cat_pc = "rows"
    /\ cat_row > Len(cat_reader.rows)
    /\ cat_pc' = "unmatched"
    /\ UNCHANGED <<cat_run, fs, cat_rules_json, cat_categories_txt, cat_in_csv,
                   cat_out_csv, unmatched_csv, cat_input, cat_reader, cat_categories,
                   cat_rules, fieldnames, cat_row, unmatched_counts, catOthers>>

\* lines 79-88: the unmatched-merchants report
CatUnmatched ==
    /\ cat_pc = "unmatched"
    /\ fs' = [fs EXCEPT ![unmatched_csv] =
                 [exists |-> TRUE, header |-> <<"Merchant", "Count">>,
                  rows |-> SortedReport(unmatched_counts)]]
    /\ cat_pc' = "done"
    /\ UNCHANGED <<cat_run, cat_rules_json, cat_categories_txt, cat_in_csv, cat_out_csv,
                   unmatched_csv, cat_input, cat_reader, cat_categories, cat_rules,
                   fieldnames, cat_row, unmatched_counts, catOthers>>

\* The operator runs the command again, on the categorized CSV it wrote.
CatRerun ==
    /\ cat_pc = "done"
    /\ cat_run = 1
    /\ cat_run' = 2
    /\ cat_in_csv' = cat_out_csv
    /\ cat_input' = fs[cat_out_csv]
    /\ cat_pc' = "start"
    /\ cat_reader' = NoFile
    /\ fieldnames' = <<>>
    /\ cat_row' = 0
    /\ UNCHANGED <<fs, cat_rules_json, cat_categories_txt, cat_out_csv, unmatched_csv,
                   cat_categories, cat_rules, unmatched_counts, catOthers>>

CatNext ==
    \/ CatStart
    \/ CatHeader
    \/ CatRow
    \/ CatRowsDone
    \/ CatUnmatched
    \/ CatRerun

InitCat == CatInit /\ MoneyIdle /\ TableIdle /\ ExtractIdle /\ EngineIdle /\ SessionIdle

SpecCat == InitCat /\ [][CatNext]_vars

\* The run has ended: cleanly, by SystemExit, or by an exception.
CatEnded == cat_pc \in {"done", "exit", "crash"}

\* C7: every input row whose Category is not blank is written unchanged, and
\* the command run on its own output produces the same rows again.
C7_RerunSameRows ==
    /\ cat_pc = "done" =>
          \A i \in 1..Len(cat_input.rows) :
              Strip(RowGet(cat_input.header, cat_input.rows[i], "Category")) # "" =>
                  /\ i <= Len(fs[cat_out_csv].rows)
                  /\ fs[cat_out_csv].rows[i] =
                        WrittenRow(cat_input.header, cat_input.rows[i], FALSE, "")
    /\ (cat_run = 2 /\ CatEnded) =>
          /\ cat_pc = "done"
          /\ fs[cat_out_csv].header = cat_input.header
          /\ fs[cat_out_csv].rows = cat_input.rows

\* The rows read without a category of their own (blank after trimming).
RowsToLabel ==
    {i \in 1..Len(cat_reader.rows) :
        Strip(RowGet(fieldnames, cat_reader.rows[i], "Category")) = ""}

MerchantOfRow(i) == normalize_merchant(RowGet(fieldnames, cat_reader.rows[i], "Merchant"))

\* C8 (as claimed): the tally holds one entry per distinct normalized merchant
\* for which categorize_merchant returned none on a row without a category,
\* counting those rows, and no entry for a merchant some rule matched.
C8_TallyOfUnmatched ==
    cat_pc = "done" =>
        LET unmatched == {i \in RowsToLabel :
                             categorize_merchant(
                                 RowGet(fieldnames, cat_reader.rows[i], "Merchant"),
                                 cat_rules).isNone}
        IN  /\ DOMAIN unmatched_counts = {MerchantOfRow(i) : i \in unmatched}
            /\ \A k \in DOMAIN unmatched_counts :
                  unmatched_counts[k] = Cardinality({i \in unmatched : MerchantOfRow(i) = k})

\* C8 (amended): the tally holds one entry per distinct non-empty normalized
\* merchant of a row that had no category of its own and was written with the
\* category "Uncategorized", counting those rows; the report lists these
\* entries, once each; a merchant written with another category has no entry.
C8_TallyOfUncategorized ==
    cat_pc = "done" =>
        LET written == fs[cat_out_csv].rows
            uncategorized ==
                {i \in RowsToLabel :
                    /\ RowGet(fieldnames, written[i], "Category") = "Uncategorized"
                    /\ MerchantOfRow(i) # ""}
            report == fs[unmatched_csv].rows
        IN  /\ Len(written) = Len(cat_reader.rows)
            /\ DOMAIN unmatched_counts = {MerchantOfRow(i) : i \in uncategorized}
            /\ \A k \in DOMAIN unmatched_counts :
                  unmatched_counts[k] =
                      Cardinality({i \in uncategorized : MerchantOfRow(i) = k})
            /\ Len(report) = Cardinality(DOMAIN unmatched_counts)
            /\ \A k \in DOMAIN unmatched_counts :
                  \E j \in 1..Len(report) : report[j] = <<k, NatToDigits(unmatched_counts[k])>>
            /\ \A i \in RowsToLabel :
                  RowGet(fieldnames, written[i], "Category") # "Uncategorized" =>
                      MerchantOfRow(i) \notin DOMAIN unmatched_counts

\* C8 witness: a report that counts one normalized merchant twice.
C8_Witness ==
    /\ cat_pc = "done"
    /\ \E k \in DOMAIN unmatched_counts : unmatched_counts[k] = 2
    /\ \E j \in 1..Len(fs[unmatched_csv].rows) : fs[unmatched_csv].rows[j][2] = "2"

\* The built row has the form [date, description, m1, m2]: a date-like first
\* cell, a description that is neither empty, money-like nor date-like, and
\* two money-like cells that parse.
IsDateDescTwoMoneyRow(raw_row) ==
    /\ Len(raw_row) = 4
    /\ looks_like_date(clean_cell(raw_row[1]))
    /\ clean_cell(raw_row[2]) # ""
    /\ ~looks_like_money(clean_cell(raw_row[2]))
    /\ ~looks_like_date(clean_cell(raw_row[2]))
    /\ looks_like_money(clean_cell(raw_row[3]))
    /\ looks_like_money(clean_cell(raw_row[4]))
    /\ ~parse_money(raw_row[3]).isNone
    /\ ~parse_money(raw_row[4]).isNone

\* C3: a row [date, description, m1, m2] yields exactly one record, whose
\* description is the second cell, whose amount is m1 to two decimals and
\* whose balance is m2 to two decimals.
C3_AmountThenBalance ==
    (table_pc = "done" /\ Len(table) = 1 /\ IsDateDescTwoMoneyRow(BuiltRow)) =>
        /\ Len(rows_out) = 1
        /\ rows_out[1].description = clean_cell(BuiltRow[2])
        /\ rows_out[1].amount = FormatMoney(parse_money(BuiltRow[3]))
        /\ rows_out[1].balance = FormatMoney(parse_money(BuiltRow[4]))

(***************************************************************************)
(* SpecSession: a rule-learning session over an activity file, the         *)
(* operator's answers drawn at each prompt.  The session is at rest only   *)
(* at a prompt: each action runs the code from one input() to the next, or *)
(* to the end of cmd_categorize.                                           *)
(***************************************************************************)
MaxSessRows == 2

\* Description cells of the activity file.
DescriptionPool == { "AMZN", " AMZN ", "sbux 12", "" }

DescriptionRows == UNION { [1..n -> DescriptionPool] : n \in 0..MaxSessRows }

\* A row of the activity file with the description d, under the header h.
ActivityRow(h, d) ==
    [j \in 1..Len(h) |-> IF h[j] \in {"Description", "description"} THEN d ELSE ""]

\* The activity files: none, one with the column Description, and one as
\* extract_activity writes it.
ActivityCsvs ==
    { NoFile }
        \cup { [exists |-> TRUE, header |-> h,
                rows |-> [i \in 1..Len(r) |-> ActivityRow(h, r[i])]] :
                 h \in { <<"Description">>, HeaderRow }, r \in DescriptionRows }

RulesJsons ==
    { AbsentRules,
      [exists |-> TRUE,
       data |-> [exact |-> [c \in {"Amazon"} |-> "Shopping"],
                 patterns |-> << [pattern |-> "SB(", canonical |-> "Nobody"],
                                 [pattern |-> "SBUX", canonical |-> "Starbucks"] >>,
                 raw_to_canonical |-> [r \in {"AMZN"} |-> "Amazon"]]],
      [exists |-> TRUE,
       data |-> [exact |-> [c \in {"AMZN"} |-> "Hobbies"],
                 patterns |-> << [pattern |-> "", canonical |-> "Nobody"],
                                 [pattern |-> "sbux", canonical |-> ""] >>,
                 raw_to_canonical |-> <<>>]] }

CategoriesFiles == { AbsentText, TextFile(<<"Shopping", "# note", "">>) }

\* The second file names a group "" (a line "*").
GroupsFiles ==
    { AbsentText, TextFile(<<"*Living", " Shopping", "">>), TextFile(<<"*", "Shopping">>) }

\* What the operator types at a prompt, before input(...).strip().
CanonicalAnswers == { "", "Amazon", " Starbucks " }

CategoryAnswers == { "", "Shopping", " Coffee" }

GroupAnswers == { "", "Living" }

SessionInit ==
    /\ sess_pc = "load"
    /\ categories_txt \in CategoriesFiles
    /\ groups_txt \in GroupsFiles
    /\ rules_json \in RulesJsons
    /\ activity_csv \in ActivityCsvs
    /\ categories = <<>>
    /\ groups = <<>>
    /\ category_to_group = <<>>
    /\ group_to_categories = <<>>
    /\ raw_to_canonical = <<>>
    /\ exact = <<>>
    /\ patterns = <<>>
    /\ seen_canonical = <<>>
    /\ sess_row = 0
    /\ raw_desc = ""
    /\ canonical = NoneStr
    /\ category = ""

\* line 226: (row.get("Description") or "").strip()
RowDescription(file, i) == Strip(RowGet(file.header, file.rows[i], "Description"))

\* lines 225-228: the next row, from row i on, with a non-empty description
RECURSIVE NextDescribedRow(_, _)
NextDescribedRow(file, i) ==
    IF i > Len(file.rows) THEN i
    ELSE IF RowDescription(file, i) # "" THEN i
    ELSE NextDescribedRow(file, i + 1)

\* The loop from row i on, with the session's structures as given: it stops at
\* the canonical prompt of the next described row (lines 225-248), or, the rows
\* exhausted, saves the three files and returns (lines 284-294).
SessContinue(i, cats, grps, c2g, g2c, r2c, ex, pats, seen) ==
    LET j == NextDescribedRow(activity_csv, i)
    IN  /\ categories' = cats
        /\ groups' = grps
        /\ category_to_group' = c2g
        /\ group_to_categories' = g2c
        /\ raw_to_canonical' = r2c
        /\ exact' = ex
        /\ patterns' = pats
        /\ seen_canonical' = seen
        /\ sess_row' = j
        /\ category' = ""
        /\ UNCHANGED activity_csv
        /\ IF j > Len(activity_csv.rows)
           THEN /\ sess_pc' = "done"
                /\ raw_desc' = ""
                /\ canonical' = NoneStr
                /\ categories_txt' = save_categories(cats)
                /\ groups_txt' = save_groups(grps, g2c)
                /\ rules_json' = save_rules(ex, pats, r2c)
           ELSE /\ sess_pc' = "ask_canonical"
                /\ raw_desc' = RowDescription(activity_csv, j)
                /\ canonical' = SuggestedCanonical(r2c, pats, RowDescription(activity_csv, j))
                /\ UNCHANGED <<categories_txt, groups_txt, rules_json>>

\* lines 207-225: load the three files and open the activity file
SessStart ==
    /\ sess_pc = "load"
    /\ LET loaded == load_groups(groups_txt)
           rules == sess_load_rules(rules_json)
       IN  IF activity_csv.exists /\ InSeq(activity_csv.header, "Description")
           THEN SessContinue(1, sess_load_categories(categories_txt), loaded.groups,
                             loaded.category_to_group, loaded.group_to_categories,
                             rules.raw_to_canonical, rules.exact, rules.patterns, <<>>)
           ELSE /\ sess_pc' = IF activity_csv.exists THEN "exit" ELSE "crash"
                /\ categories' = sess_load_categories(categories_txt)
                /\ groups' = loaded.groups
                /\ category_to_group' = loaded.category_to_group
                /\ group_to_categories' = loaded.group_to_categories
                /\ raw_to_canonical' = rules.raw_to_canonical
                /\ exact' = rules.exact
                /\ patterns' = rules.patterns
                /\ UNCHANGED <<categories_txt, groups_txt, rules_json, activity_csv,
                               seen_canonical, sess_row, raw_desc, canonical, category>>
    /\ UNCHANGED sessOthers

\* lines 270-280: a category found in exact is registered, in group "Other"
\* when it has no group
EnsureRegistered(cat, acc) ==
    IF cat \in DOMAIN acc.category_to_group
    THEN [acc EXCEPT !.categories = AppendNew(@, cat)]
    ELSE LET g2c == SetDefaultEmpty(acc.group_to_categories, "Other")
         IN  [categories |-> AppendNew(acc.categories, cat),
              groups |-> AppendNew(acc.groups, "Other"),
              group_to_categories |-> DictSet(g2c, "Other", Append(g2c["Other"], cat)),
              category_to_group |-> DictSet(acc.category_to_group, cat, "Other")]

Registry ==
    [categories |-> categories, groups |-> groups,
     category_to_group |-> category_to_group, group_to_categories |-> group_to_categories]

\* lines 248-282, up to the category prompt: the operator answers the
\* canonical prompt of _pick_canonical
SessAnswerCanonical ==
    /\ sess_pc = "ask_canonical"
    /\ \E typed \in CanonicalAnswers :
          LET chosen == pick_canonical(raw_desc, canonical, Strip(typed))
              r2c == DictSet(raw_to_canonical, raw_desc, chosen)
          IN  IF chosen \in DOMAIN seen_canonical
              THEN SessContinue(sess_row + 1, categories, groups, category_to_group,
                                group_to_categories, r2c, exact, patterns, seen_canonical)
              ELSE IF chosen \in DOMAIN exact
              THEN LET reg == EnsureRegistered(exact[chosen], Registry)
                   IN  SessContinue(sess_row + 1, reg.categories, reg.groups,
                                    reg.category_to_group, reg.group_to_categories,
                                    r2c, exact, patterns,
                                    DictSet(seen_canonical, chosen, exact[chosen]))
              ELSE /\ sess_pc' = "ask_category"
                   /\ canonical' = Some(chosen)
                   /\ raw_to_canonical' = r2c
                   /\ UNCHANGED <<categories_txt, groups_txt, rules_json, activity_csv,
                                  categories, groups, category_to_group,
                                  group_to_categories, exact, patterns, seen_canonical,
                                  sess_row, raw_desc, category>>
    /\ UNCHANGED sessOthers

\* lines 154-167 and 267-282: the operator answers the category prompt of
\* _pick_category; a blank answer is asked again
SessAnswerCategory ==
    /\ sess_pc = "ask_category"
    /\ \E typed \in CategoryAnswers :
          LET entered == Strip(typed)
          IN  IF entered = "" THEN UNCHANGED sessVars
              ELSE IF Truthy(DictGet(category_to_group, entered))
              THEN SessContinue(sess_row + 1, AppendNew(categories, entered), groups,
                                category_to_group, group_to_categories, raw_to_canonical,
                                DictSet(exact, canonical.text, entered), patterns,
                                DictSet(seen_canonical, canonical.text, entered))
              ELSE /\ sess_pc' = "ask_group"
                   /\ category' = entered
                   /\ categories' = AppendNew(categories, entered)
                   /\ UNCHANGED <<categories_txt, groups_txt, rules_json, activity_csv,
                                  groups, category_to_group, group_to_categories,
                                  raw_to_canonical, exact, patterns, seen_canonical,
                                  sess_row, raw_desc, canonical>>
    /\ UNCHANGED sessOthers

\* lines 178-190 and 267-282: the operator answers the group prompt
SessAnswerGroup ==
    /\ sess_pc = "ask_group"
    /\ \E typed \in GroupAnswers :
          LET group == IF Strip(typed) = "" THEN "Other" ELSE Strip(typed)
              g2c == SetDefaultEmpty(group_to_categories, group)
          IN  SessContinue(sess_row + 1, categories, AppendNew(groups, group),
                           DictSet(category_to_group, category, group),
                           DictSet(g2c, group, AppendNew(g2c[group], category)),
                           raw_to_canonical, DictSet(exact, canonical.text, category),
                           patterns, DictSet(seen_canonical, canonical.text, category))
    /\ UNCHANGED sessOthers

SessInterrupt_Saves ==
    /\ sess_pc \in { "ask_canonical", "ask_category", "ask_group" }
    /\ sess_pc' = "interrupted"
    /\ categories_txt' = save_categories(categories)
    /\ groups_txt' = save_groups(groups, group_to_categories)
    /\ rules_json' = save_rules(exact, patterns, raw_to_canonical)
    /\ UNCHANGED <<activity_csv, categories, groups, category_to_group, group_to_categories,
                   raw_to_canonical, exact, patterns, seen_canonical, sess_row, raw_desc,
                   canonical, category>>
    /\ UNCHANGED sessOthers

\* Ctrl+C at a prompt: input() raises KeyboardInterrupt, which nothing in
\* cmd_categorize catches
SessInterrupt ==
    /\ sess_pc \in { "ask_canonical", "ask_category", "ask_group" }
    /\ sess_pc' = "interrupted"
    /\ UNCHANGED <<categories_txt, groups_txt, rules_json, activity_csv, categories, groups,
                   category_to_group, group_to_categories, raw_to_canonical, exact,
                   patterns, seen_canonical, sess_row, raw_desc, canonical, category>>
    /\ UNCHANGED sessOthers

SessionNext ==
    \/ SessStart
    \/ SessAnswerCanonical
    \/ SessAnswerCategory
    \/ SessAnswerGroup
    \/ SessInterrupt

InitSession ==
    SessionInit /\ MoneyIdle /\ TableIdle /\ ExtractIdle /\ EngineIdle /\ CatIdle

SpecSession == InitSession /\ [][SessionNext]_vars

\* C9: the operator is asked for a canonical name only for a row whose raw
\* description has no raw-to-canonical mapping, loaded or recorded earlier in
\* the session, and matches no pattern rule.
C9_PromptOnlyWithoutCanonical ==
    sess_pc = "ask_canonical" =>
        /\ raw_desc \notin DOMAIN raw_to_canonical
        /\ PatternCanonical(patterns, raw_desc, 1).isNone

\* C10: once raw_to_canonical holds a name for a raw description, no step of
\* the session changes it to a different name.
C10_CanonicalNeverChanged ==
    [][\A raw \in DOMAIN raw_to_canonical :
           /\ raw \in DOMAIN raw_to_canonical'
           /\ raw_to_canonical'[raw] = raw_to_canonical[raw]]_vars

\* The groups whose list holds the category.
GroupsListing(cat) == { g \in DOMAIN group_to_categories : InSeq(group_to_categories[g], cat) }

\* C11: at the clean end of a session every category of an exact rule is in
\* the category list and is listed by exactly one group, the one that
\* category_to_group names.
C11_RuleCategoriesRegistered ==
    sess_pc = "done" =>
        \A c \in DOMAIN exact :
            /\ InSeq(categories, exact[c])
            /\ exact[c] \in DOMAIN category_to_group
            /\ GroupsListing(exact[c]) = { category_to_group[exact[c]] }

\* C12: the category file, the groups file and the rules file change only in
\* the step that ends the session cleanly, after the last row; an interrupt at
\* a prompt leaves all three as they were before the session.
C12_FilesWrittenOnlyAtEnd ==
    [][ <<categories_txt, groups_txt, rules_json>>' # <<categories_txt, groups_txt, rules_json>>
            => /\ sess_pc' = "done"
               /\ sess_row' > Len(activity_csv.rows) ]_vars

\* C12 witness: an interrupt after the first row, with a mapping recorded in
\* memory that the rules file does not hold.
C12_Witness ==
    /\ sess_pc = "interrupted"
    /\ sess_row >= 2
    /\ raw_to_canonical # sess_load_rules(rules_json).raw_to_canonical

\* The patterns of the rules.json that compile, in their order.
RECURSIVE CompilablePatterns(_)
CompilablePatterns(pats) ==
    IF pats = <<>> THEN <<>>
    ELSE (IF ReError(pats[1].regex) THEN <<>> ELSE <<PatternRule(pats[1])>>)
             \o CompilablePatterns(Tail(pats))

\* C13: a regex of the rule set that does not compile never aborts the
\* engine: loading succeeds, the bad pattern is passed over and the others are
\* tried in their order.
C13_BadRegexSkipped ==
    /\ engine_pc # "crash"
    /\ engine_pc \in {"loaded", "done"} =>
          engine_rules.patterns = CompilablePatterns(engine_data.patterns)

\* The files as they were before the first run.
FilesBeforeRun == [p \in CatPaths |-> IF p = cat_in_csv THEN cat_input ELSE StaleFile]

\* C14: a run of categorize-by-rules that stops with a fatal error (a file
\* not found, no header, no Category column, a row that cannot be written)
\* leaves the categorized CSV and the unmatched-merchants report, like every
\* other file, as they were before the run.
C14_OutputsKeptOnFatalError ==
    (cat_run = 1 /\ cat_pc \in {"exit", "crash"}) => fs = FilesBeforeRun

(***************************************************************************)
(* SpecCommands: one run of one of the three commands (the activity        *)
(* command, categorize-by-rules, the rule-learning session), the other two *)
(* at rest.                                                                *)
(***************************************************************************)
InitCommands == InitExtract \/ InitCat \/ InitSession

CommandsNext ==
    \/ ExtractNext
    \/ CatNext
    \/ SessionNext

SpecCommands == InitCommands /\ [][CommandsNext]_vars

\* C15, as stated: no command goes on to prompt the operator when its rule
\* set file or its category file is absent.
C15_MissingInputIsFatal ==
    sess_pc \in {"ask_canonical", "ask_category", "ask_group"} =>
        rules_json.exists /\ categories_txt.exists

\* C15, amended.  The activity command ends on an absent PDF, and
\* categorize-by-rules on an absent input CSV, rule set or category file,
\* with every file as it was.  The rule-learning session ends in an error on
\* an absent activity CSV, before any prompt and with its three files as they
\* were; an absent category, group or rule set file is no error for it: the
\* file is read as empty, the rows are walked, and the file is written at the
\* clean end.
C15_MissingInputHandling ==
    [][ /\ (ex_pc = "command" /\ ex_pc' = "exit") => UNCHANGED out_csv
        /\ (cat_pc = "start" /\ cat_pc' = "exit") => UNCHANGED fs
        /\ (sess_pc = "load" /\ ~activity_csv.exists) =>
              /\ sess_pc' = "crash"
              /\ UNCHANGED <<categories_txt, groups_txt, rules_json, activity_csv>>
        /\ (sess_pc = "load" /\ activity_csv.exists
                /\ InSeq(activity_csv.header, "Description")) =>
              /\ sess_pc' \in {"ask_canonical", "done"}
              /\ ~categories_txt.exists => categories' = <<>>
              /\ ~groups_txt.exists => groups' = <<>> /\ category_to_group' = <<>>
              /\ ~rules_json.exists => exact' = <<>> /\ patterns' = <<>>
        /\ (sess_pc # "done" /\ sess_pc' = "done") =>
              categories_txt'.exists /\ groups_txt'.exists /\ rules_json'.exists
      ]_vars

\* C15 witness: the session asks for a canonical name although neither the
\* rule set file nor the category file exists.
C15_Witness ==
    /\ sess_pc = "ask_canonical"
    /\ ~rules_json.exists
    /\ ~categories_txt.exists

\* The records of the tables of pages 1..n, pages whose extract_tables threw
\* left out.
RECURSIVE TablePassRecords(_, _)
TablePassRecords(pt, n) ==
    IF n = 0 THEN <<>>
    ELSE TablePassRecords(pt, n - 1)
             \o (IF pt[n].state = "ok" THEN TablesRecords(n, pt[n].yields, 1) ELSE <<>>)

\* The records of the lines of pages 1..n, pages whose extract_text threw or
\* gave no text left out.
RECURSIVE LinePassRecords(_, _)
LinePassRecords(px, n) ==
    IF n = 0 THEN <<>>
    ELSE LinePassRecords(px, n - 1)
             \o (IF px[n].state = "text" THEN RowRecords("line", n, 1, px[n].yields[1])
                 ELSE <<>>)

\* C16: a page whose extract_tables or extract_text throws is passed over:
\* the pass goes on with the next page and keeps what it has accumulated, and
\* the CSV written at the end holds the records of every other page of the
\* pass that ran.
C16_PageFailureIsolated ==
    [][ /\ (ex_pc = "tables" /\ page_num <= num_pages
                /\ page_tables'[page_num].state = "raise") =>
              /\ ex_pc' = "tables"
              /\ page_num' = page_num + 1
              /\ all_transactions' = all_transactions
        /\ (ex_pc = "lines" /\ page_num <= num_pages
                /\ page_text'[page_num].state = "raise") =>
              /\ ex_pc' = "lines"
              /\ page_num' = page_num + 1
              /\ all_transactions' = all_transactions
        /\ (ex_pc = "write" /\ ex_pc' = "done") =>
              out_csv'.records =
                  IF TablePassRecords(page_tables, num_pages) # <<>>
                  THEN TablePassRecords(page_tables, num_pages)
                  ELSE LinePassRecords(page_text, num_pages)
      ]_vars

\* C16 witness: extract_tables threw on one page, and the CSV holds the
\* records of the tables of another page.
C16_Witness ==
    /\ ex_pc = "done"
    /\ ex_outcome = "ok"
    /\ out_csv.records # <<>>
    /\ \E p, q \in 1..num_pages :
          /\ page_tables[p].state = "raise"
          /\ page_tables[q].state = "ok"
          /\ TablesRecords(q, page_tables[q].yields, 1) # <<>>

\* C17: an activity CSV with a column named Description or description, such
\* as the one extract_activity writes, is not rejected by the session: its
\* rows are walked.
C17_EitherDescriptionColumn ==
    (activity_csv.exists
        /\ (InSeq(activity_csv.header, "Description")
               \/ InSeq(activity_csv.header, "description"))) =>
        sess_pc \notin {"exit", "crash"}

\* C18: after a clean end of the session, load_rules reads the rules file it
\* wrote, and categorize_merchant gives every canonical merchant of the
\* session the category the session assigned to it.
C18_EngineHonoursSession ==
    sess_pc = "done" =>
        \A mer \in DOMAIN seen_canonical :
            /\ ~load_session_file_raises(rules_json)
            /\ categorize_merchant(mer, load_session_file(rules_json))
                   = Some(seen_canonical[mer])

====
